---------------------------- MODULE Spec2Model ----------------------------
(***************************************************************************)
(* Model of src/coc-extension/index.js: the coc.nvim adapter of            *)
(* lsp_lines.  The adapter is activated once, picks a display mode from    *)
(* the configuration, subscribes asynchronous handlers to the diagnostic   *)
(* manager's refresh event and (in current-line-only mode) to CursorMoved, *)
(* and forwards diagnostics to the Lua renderer with an un-awaited         *)
(* nvim.call.  The host (coc.nvim and Neovim) is the environment: it       *)
(* publishes diagnostics, moves the cursor, switches windows, changes the  *)
(* configuration, answers the handlers' requests in any order and disposes *)
(* of the subscriptions.                                                   *)
(***************************************************************************)
EXTENDS Integers, Sequences, FiniteSets, TLC

\* Cursor lines are 1..MaxLine (one-based); diagnostic lines 0..MaxLine-1.
MaxLine == 3
\* Number of events the host delivers to subscribed handlers in one run.
MaxEvents == 2
\* Host calls (an awaited request, a render call) that fail in one run.
MaxFailures == 1
\* Lines drawn for the checks of the pure functions.
PureMaxLine == 6

Buffers == {1, 2}
\* One window per buffer: window w shows buffer w.
Windows == Buffers
\* What createNamespace('coc-lsp-lines') may answer; ForeignNs belongs to
\* another plugin.
NamespaceIds == {7}
ForeignNamespaces == {9}
Lines == 1..MaxLine
\* "missing": get("lsp_lines") is undefined; "unset": the section exists and
\* has no currentLineOnly; "off"/"on": currentLineOnly is false/true.
ConfigValues == {"missing", "unset", "off", "on"}

VARIABLES
    phase,          \* "unloaded", "activating", "active", "failed", "disposed"
    config,         \* the lsp_lines configuration as the host holds it now
    mode,           \* "none", "CurrentLineOnly", "AllLines"
    NS,             \* namespace id returned by createNamespace (0: none yet)
    subscriptions,  \* context.subscriptions: the disposables pushed
    store,          \* diagnostic manager: buffer -> diagnostics grouped by source
    focus,          \* the active window (and its buffer)
    cursor,         \* window -> one-based cursor line
    handlers,       \* one record per delivered event: payload, position, locals
    renders,        \* the render calls issued, in order
    marks,          \* buffer -> namespaces that own annotations in it
    fnOp, fnDiag, fnLine, fnResult  \* a pure function applied: which, to what, its result

envVars == <<store, focus, cursor>>
lifeVars == <<phase, mode, NS, subscriptions>>
runVars == <<handlers, renders, marks>>
fnVars == <<fnOp, fnDiag, fnLine, fnResult>>
vars == <<phase, config, mode, NS, subscriptions, store, focus, cursor,
          handlers, renders, marks, fnOp, fnDiag, fnLine, fnResult>>

-----------------------------------------------------------------------------
(* Diagnostics *)

\* A coc Diagnostic as the diagnostic manager hands it out: no lnum, no col.
Diag(sl, sc, el, msg, src) ==
    [range |-> [start |-> [line |-> sl, character |-> sc],
                end |-> [line |-> el, character |-> sc + 4]],
     severity |-> 1, message |-> msg, source |-> src]

\* The sets the language tools publish for a buffer, grouped by source in the
\* order the manager iterates them.
NoDiagnostics == << >>
TwoLines ==
    << [source |-> "tsserver", items |-> << Diag(0, 2, 0, "d1", "tsserver") >>],
       [source |-> "eslint",
        items |-> << Diag(MaxLine - 1, 0, MaxLine - 1, "d2", "eslint") >>] >>
MultiLine ==
    << [source |-> "tsserver",
        items |-> << Diag(0, 1, 1, "span", "tsserver"),
                     Diag(1, 3, 1, "d3", "tsserver") >>] >>
DiagSetChoices == {NoDiagnostics, TwoLines, MultiLine}

\* Mutant: the one-based cursor line compared with the zero-based range.
diagnosticIsOnLineNoShift(cocDiagnostic, lnum) ==
    /\ cocDiagnostic.range.start.line <= lnum
    /\ cocDiagnostic.range.end.line >= lnum

\* index.js:127-130
diagnosticIsOnLine(cocDiagnostic, lnum) ==
    /\ cocDiagnostic.range.start.line <= lnum - 1
    /\ cocDiagnostic.range.end.line >= lnum - 1

\* Mutant: line and column exchanged.
populateLnumAndColSwapped(cocDiagnostic) ==
    [f \in (DOMAIN cocDiagnostic) \cup {"lnum", "col"} |->
        IF f = "lnum" THEN cocDiagnostic.range.start.character
        ELSE IF f = "col" THEN cocDiagnostic.range.start.line
        ELSE cocDiagnostic[f]]

\* index.js:136-141
populateLnumAndCol(cocDiagnostic) ==
    [f \in (DOMAIN cocDiagnostic) \cup {"lnum", "col"} |->
        IF f = "lnum" THEN cocDiagnostic.range.start.line
        ELSE IF f = "col" THEN cocDiagnostic.range.start.character
        ELSE cocDiagnostic[f]]

\* Mutant: the diagnostics are forwarded as the manager gave them.
MapPopulateSkipped(ds) == ds

\* Array.prototype.map(d => populateLnumAndCol(d))
MapPopulate(ds) == [i \in 1..Len(ds) |-> populateLnumAndCol(ds[i])]

\* index.js:51-54
RECURSIVE flattenedDiagnostics(_)
flattenedDiagnostics(diagnosticsBySource) ==
    IF diagnosticsBySource = << >> THEN << >>
    ELSE Head(diagnosticsBySource).items
            \o flattenedDiagnostics(Tail(diagnosticsBySource))

\* Mutant: the refresh handler forwards the whole set.
RefreshLineDiagnosticsUnfiltered(diagnostics, lnum) == MapPopulate(diagnostics)

\* index.js:40: e.diagnostics.map(...).filter(d => diagnosticIsOnLine(d, lnum))
RefreshLineDiagnostics(diagnostics, lnum) ==
    SelectSeq(MapPopulate(diagnostics), LAMBDA d : diagnosticIsOnLine(d, lnum))

\* Mutant: the cursor handler narrows what the previous render call was given
\* instead of the set it fetched.
CursorLineDiagnosticsStale(diagnosticsBySource, lnum) ==
    SelectSeq(IF renders = << >>
              THEN MapPopulate(flattenedDiagnostics(diagnosticsBySource))
              ELSE renders[Len(renders)].args[3],
              LAMBDA d : diagnosticIsOnLine(d, lnum))

\* index.js:61: flattenedDiagnostics.map(...).filter(...)
CursorLineDiagnostics(diagnosticsBySource, lnum) ==
    SelectSeq(MapPopulate(flattenedDiagnostics(diagnosticsBySource)),
              LAMBDA d : diagnosticIsOnLine(d, lnum))

\* Mutant: the all-lines handler narrows to the first line.
AllLinesDiagnosticsFirstLine(diagnostics) ==
    SelectSeq(MapPopulate(diagnostics), LAMBDA d : diagnosticIsOnLine(d, 1))

\* index.js:101: e.diagnostics.map(d => populateLnumAndCol(d))
AllLinesDiagnostics(diagnostics) == MapPopulate(diagnostics)

-----------------------------------------------------------------------------
(* The render call and the renderer *)

\* Mutant: the call names the focused buffer instead of the event's.
RenderCallFocusedBuffer(ev, ns, bufnr, diagnostics, ok) ==
    [ev |-> ev, fn |-> "lsp_lines.render.show",
     args |-> << ns, focus, diagnostics, << >>, "coc" >>, ok |-> ok]

\* index.js:35-44, 56-65, 96-105: nvim.call('luaeval', [show, [NS, bufnr, ds, {}, 'coc']]).
\* ev names the handler that issued the call, ok the host's answer to it.
RenderCall(ev, ns, bufnr, diagnostics, ok) ==
    [ev |-> ev, fn |-> "lsp_lines.render.show",
     args |-> << ns, bufnr, diagnostics, << >>, "coc" >>, ok |-> ok]

\* The renderer replaces the annotations of (namespace, buffer); a failed call
\* leaves them as they were.
Shown(m, call) ==
    LET ns == call.args[1]
        b == call.args[2]
    IN IF ~call.ok THEN m
       ELSE IF call.args[3] = << >> THEN [m EXCEPT ![b] = @ \ {ns}]
       ELSE [m EXCEPT ![b] = @ \cup {ns}]

\* Mutant: only the current buffer is cleared.
ClearedBuffersCurrentOnly == {focus}

\* index.js:76-80, 115-119: nvim_buf_clear_namespace for every listed buffer.
ClearedBuffers == Buffers
ClearNamespace(m, ns) ==
    [b \in Buffers |-> IF b \in ClearedBuffers THEN m[b] \ {ns} ELSE m[b]]

-----------------------------------------------------------------------------
(* Initial state: the extension is loaded and not yet activated *)

Init ==
    /\ phase = "unloaded"
    /\ config \in ConfigValues
    /\ mode = "none"
    /\ NS = 0
    /\ subscriptions = {}
    /\ \E g \in DiagSetChoices : store = [b \in Buffers |-> g]
    /\ focus = 1
    /\ cursor = [w \in Windows |-> 1]
    /\ handlers = << >>
    /\ renders = << >>
    /\ marks = [b \in Buffers |-> ForeignNamespaces]
    /\ fnOp = "none"
    /\ fnDiag = Diag(0, 0, 0, "m", "s")
    /\ fnLine = 0
    /\ fnResult = FALSE

-----------------------------------------------------------------------------
(* Activation and deactivation *)

\* The host edits the configuration; the adapter is not told.  Edits are
\* followed until the first event is delivered; once activated, the edit
\* modelled is the user switching currentLineOnly on or off.
ConfigChange(v) ==
    /\ v /= config
    /\ \/ phase = "unloaded"
       \/ phase = "active" /\ handlers = << >> /\ v \in {"off", "on"}
    /\ config' = v
    /\ UNCHANGED <<lifeVars, envVars, runVars, fnVars>>

\* index.js:14-15: the value the mode is chosen from.
currentLineOnly(cfg) == cfg = "on"

\* index.js:15-19
SelectedMode(cfg) == IF currentLineOnly(cfg) THEN "CurrentLineOnly" ELSE "AllLines"

\* Mutant: an unreadable configuration falls back to the default mode.
ActivateWithDefault ==
    /\ phase = "unloaded"
    /\ phase' = "activating"
    /\ mode' = IF config = "on" THEN "CurrentLineOnly" ELSE "AllLines"
    /\ UNCHANGED <<config, NS, subscriptions, envVars, runVars, fnVars>>

\* index.js:13-19, up to the first await (28 or 92).  Reading
\* .currentLineOnly of an undefined section throws.
Activate ==
    /\ phase = "unloaded"
    /\ \/ /\ config = "missing"
          /\ phase' = "failed"
          /\ mode' = mode
       \/ /\ config /= "missing"
          /\ phase' = "activating"
          /\ mode' = SelectedMode(config)
    /\ UNCHANGED <<config, NS, subscriptions, envVars, runVars, fnVars>>

\* Mutant: the cursor listener is registered in both modes.
RegisteredBoth(m) ==
    {"diagnosticRefreshEvent", "cursorMovedEvent", "clearNamespace"}

\* index.js:30, 47, 72-82 and 94, 112-121: what each mode registers.
Registered(m) ==
    IF m = "CurrentLineOnly"
    THEN {"diagnosticRefreshEvent", "cursorMovedEvent", "clearNamespace"}
    ELSE {"diagnosticRefreshEvent", "clearNamespace"}

\* index.js:28-82, 92-121: createNamespace answers, the handlers are registered.
NamespaceCreated(id) ==
    /\ phase = "activating"
    /\ NS' = id
    /\ subscriptions' = Registered(mode)
    /\ phase' = "active"
    /\ UNCHANGED <<config, mode, envVars, runVars, fnVars>>

\* index.js:28, 92: createNamespace fails, activate rejects.
NamespaceFailed ==
    /\ phase = "activating"
    /\ phase' = "failed"
    /\ UNCHANGED <<config, mode, NS, subscriptions, envVars, runVars, fnVars>>

\* index.js:75-81, 114-120: the namespace the teardown clears.
TeardownNamespace == NS

\* coc.nvim disposes of context.subscriptions: both listeners are removed and
\* the last disposable clears the namespace (index.js:72-82, 112-121).
Dispose ==
    /\ phase = "active"
    /\ phase' = "disposed"
    /\ subscriptions' = {}
    /\ marks' = IF "clearNamespace" \in subscriptions
                THEN ClearNamespace(marks, TeardownNamespace)
                ELSE marks
    /\ UNCHANGED <<config, mode, NS, envVars, handlers, renders, fnVars>>

-----------------------------------------------------------------------------
(* Events and their handlers *)

Suspended == {"awaitWindow", "awaitCursor", "awaitBufferAndPosition",
              "awaitDiagnostics"}

\* One invocation of an async handler: the event's payload (bufnr, and
\* e.diagnostics or the cursor's line), where it stands, and the value its
\* first await gave it (the window, or cocBuffer; 0 before that and after).
Handler(kind, bufnr, diagnostics, lnum, pc) ==
    [kind |-> kind, bufnr |-> bufnr, diagnostics |-> diagnostics,
     lnum |-> lnum, pc |-> pc, local |-> 0]

CanDeliver == Len(handlers) < MaxEvents

\* Host calls that have failed so far: awaited requests and render calls.
Failures ==
    Cardinality({i \in 1..Len(handlers) : handlers[i].pc = "rejected"})
        + Cardinality({j \in 1..Len(renders) : ~renders[j].ok})
MayFail == Failures < MaxFailures

\* Mutant: nothing is sent when there is nothing to show.
IssueUnlessEmpty(call) ==
    /\ call.ok \/ MayFail
    /\ renders' = IF call.args[3] = << >> THEN renders ELSE Append(renders, call)
    /\ marks' = IF call.args[3] = << >> THEN marks ELSE Shown(marks, call)

\* nvim.call is not awaited (index.js:35, 56, 96): the call is issued, the
\* renderer acts on it, and the handler returns whatever the call's own
\* promise does later.
Issue(call) ==
    /\ call.ok \/ MayFail
    /\ renders' = Append(renders, call)
    /\ marks' = Shown(marks, call)

\* What the handler's promise settles to once the render call has been made
\* and the host has answered the call with ok.
OutcomeAfterRender(ok) == "fulfilled"

\* index.js:30-34 and 94-106: the diagnostic manager refreshes buffer b with
\* the set g and fires onDidRefresh.  In AllLines mode the listener runs to
\* its end within the delivery; in CurrentLineOnly mode it stops at its first
\* await.
PublishDiagnostics(b, g, ok) ==
    /\ phase = "active"
    /\ store' = [store EXCEPT ![b] = g]
    /\ \/ /\ "diagnosticRefreshEvent" \notin subscriptions
          /\ ok
          /\ UNCHANGED runVars
       \/ /\ "diagnosticRefreshEvent" \in subscriptions
          /\ mode = "CurrentLineOnly"
          /\ ok
          /\ CanDeliver
          /\ handlers' = Append(handlers,
                Handler("refresh", b, flattenedDiagnostics(g), 0, "awaitWindow"))
          /\ UNCHANGED <<renders, marks>>
       \/ /\ "diagnosticRefreshEvent" \in subscriptions
          /\ mode = "AllLines"
          /\ CanDeliver
          /\ handlers' = Append(handlers,
                Handler("refresh", b, flattenedDiagnostics(g), 0,
                        OutcomeAfterRender(ok)))
          /\ Issue(RenderCall(Len(handlers) + 1, NS, b,
                              AllLinesDiagnostics(flattenedDiagnostics(g)), ok))
    /\ UNCHANGED <<lifeVars, config, focus, cursor, fnVars>>

\* index.js:47-49: Neovim reports CursorMoved for buffer bufnr at line lnum;
\* the listener, if registered, takes the line and stops at its first await.
CursorMoved(bufnr, lnum) ==
    \/ /\ "cursorMovedEvent" \notin subscriptions
       /\ UNCHANGED runVars
    \/ /\ "cursorMovedEvent" \in subscriptions
       /\ CanDeliver
       /\ handlers' = Append(handlers,
             Handler("cursor", bufnr, << >>, lnum, "awaitBufferAndPosition"))
       /\ UNCHANGED <<renders, marks>>

\* The user moves the cursor of the active window to line l.
MoveCursor(l) ==
    /\ phase = "active"
    /\ l /= cursor[focus]
    /\ cursor' = [cursor EXCEPT ![focus] = l]
    /\ CursorMoved(focus, l)
    /\ UNCHANGED <<lifeVars, config, store, focus, fnVars>>

\* The user enters window w; Neovim reports CursorMoved for its buffer.
SwitchWindow(w) ==
    /\ phase = "active"
    /\ w /= focus
    /\ focus' = w
    /\ CursorMoved(w, cursor[w])
    /\ UNCHANGED <<lifeVars, config, store, cursor, fnVars>>

\* index.js:32: `await nvim.window` gives the window active at that moment.
WindowResolves(i) ==
    /\ i \in 1..Len(handlers)
    /\ handlers[i].pc = "awaitWindow"
    /\ handlers' = [handlers EXCEPT ![i].pc = "awaitCursor", ![i].local = focus]
    /\ UNCHANGED <<lifeVars, config, envVars, renders, marks, fnVars>>

\* index.js:33-45: `await window.cursor` gives that window's cursor; the
\* handler filters e.diagnostics by its line and issues the render call.
CursorResolves(i, ok) ==
    /\ i \in 1..Len(handlers)
    /\ handlers[i].pc = "awaitCursor"
    /\ LET h == handlers[i]
           lnum == cursor[h.local]
       IN /\ Issue(RenderCall(i, NS, h.bufnr,
                              RefreshLineDiagnostics(h.diagnostics, lnum), ok))
          /\ handlers' = [handlers EXCEPT ![i].pc = OutcomeAfterRender(ok),
                                          ![i].local = 0]
    /\ UNCHANGED <<lifeVars, config, envVars, fnVars>>

\* index.js:49: getBufferAndPosition gives the buffer current at that moment.
BufferAndPositionResolves(i) ==
    /\ i \in 1..Len(handlers)
    /\ handlers[i].pc = "awaitBufferAndPosition"
    /\ handlers' = [handlers EXCEPT ![i].pc = "awaitDiagnostics",
                                    ![i].local = focus]
    /\ UNCHANGED <<lifeVars, config, envVars, renders, marks, fnVars>>

\* index.js:50-66: getDiagnostics(cocBuffer) gives that buffer's diagnostics
\* by source; the handler flattens, filters by the event's line and issues the
\* render call for the event's bufnr.
DiagnosticsResolve(i, ok) ==
    /\ i \in 1..Len(handlers)
    /\ handlers[i].pc = "awaitDiagnostics"
    /\ LET h == handlers[i]
           diagnosticsBySource == store[h.local]
       IN /\ Issue(RenderCall(i, NS, h.bufnr,
                              CursorLineDiagnostics(diagnosticsBySource, h.lnum), ok))
          /\ handlers' = [handlers EXCEPT ![i].pc = OutcomeAfterRender(ok),
                                          ![i].local = 0]
    /\ UNCHANGED <<lifeVars, config, envVars, fnVars>>

\* index.js:32, 33, 49, 50: the awaited request fails; the handler's promise
\* rejects and nothing after the await runs.
AwaitRejects(i) ==
    /\ i \in 1..Len(handlers)
    /\ handlers[i].pc \in Suspended
    /\ MayFail
    /\ handlers' = [handlers EXCEPT ![i].pc = "rejected", ![i].local = 0]
    /\ UNCHANGED <<lifeVars, config, envVars, renders, marks, fnVars>>

-----------------------------------------------------------------------------
(* The adapter in its host *)

Next ==
    \/ \E v \in ConfigValues : ConfigChange(v)
    \/ Activate
    \/ \E id \in NamespaceIds : NamespaceCreated(id)
    \/ NamespaceFailed
    \/ Dispose
    \/ \E b \in Buffers, g \in DiagSetChoices, ok \in BOOLEAN :
          PublishDiagnostics(b, g, ok)
    \/ \E l \in Lines : MoveCursor(l)
    \/ \E w \in Windows : SwitchWindow(w)
    \/ \E i \in 1..MaxEvents : WindowResolves(i)
    \/ \E i \in 1..MaxEvents, ok \in BOOLEAN : CursorResolves(i, ok)
    \/ \E i \in 1..MaxEvents : BufferAndPositionResolves(i)
    \/ \E i \in 1..MaxEvents, ok \in BOOLEAN : DiagnosticsResolve(i, ok)
    \/ \E i \in 1..MaxEvents : AwaitRejects(i)

Spec == Init /\ [][Next]_vars

-----------------------------------------------------------------------------
(* The pure functions, applied to drawn arguments *)

PureDiags ==
    {Diag(s, c, e, "m", "s") : s \in 0..(PureMaxLine - 1), c \in {0, 1},
                               e \in 0..(PureMaxLine - 1)}
PureLines == 1..PureMaxLine

InitFn ==
    /\ phase = "unloaded"
    /\ config = "off"
    /\ mode = "none"
    /\ NS = 0
    /\ subscriptions = {}
    /\ store = [b \in Buffers |-> NoDiagnostics]
    /\ focus = 1
    /\ cursor = [w \in Windows |-> 1]
    /\ handlers = << >>
    /\ renders = << >>
    /\ marks = [b \in Buffers |-> ForeignNamespaces]
    /\ fnOp = "none"
    /\ fnDiag \in PureDiags
    /\ fnLine \in PureLines
    /\ fnResult = FALSE

\* index.js:127-130 called with (fnDiag, fnLine).
ApplyIsOnLine ==
    /\ fnOp = "none"
    /\ fnOp' = "diagnosticIsOnLine"
    /\ fnResult' = diagnosticIsOnLine(fnDiag, fnLine)
    /\ UNCHANGED <<fnDiag, fnLine, config, lifeVars, envVars, runVars>>

\* index.js:136-141 called with fnDiag.
ApplyPopulate ==
    /\ fnOp = "none"
    /\ fnOp' = "populateLnumAndCol"
    /\ fnResult' = populateLnumAndCol(fnDiag)
    /\ UNCHANGED <<fnDiag, fnLine, config, lifeVars, envVars, runVars>>

\* index.js:136-141 called again with what it returned.
ApplyPopulateAgain ==
    /\ fnOp = "populateLnumAndCol"
    /\ fnOp' = "populateLnumAndColTwice"
    /\ fnDiag' = fnResult
    /\ fnResult' = populateLnumAndCol(fnResult)
    /\ UNCHANGED <<fnLine, config, lifeVars, envVars, runVars>>

NextFn ==
    \/ ApplyIsOnLine
    \/ ApplyPopulate
    \/ ApplyPopulateAgain

SpecFn == InitFn /\ [][NextFn]_vars

-----------------------------------------------------------------------------
(* C2 *)

\* C2: for every diagnostic with zero-based start line s and end line e and
\* every one-based cursor line L, diagnosticIsOnLine answers true exactly when
\* L is one of the lines s+1 .. e+1.
C2_OnLineIffInRange ==
    fnOp = "diagnosticIsOnLine" =>
        (fnResult = TRUE) =
            (fnLine \in {k + 1 : k \in fnDiag.range.start.line..fnDiag.range.end.line})

\* A single-line diagnostic at zero-based line 4 found on cursor line 5.
C2_Witness ==
    /\ fnOp = "diagnosticIsOnLine"
    /\ fnDiag.range.start.line = 4
    /\ fnDiag.range.end.line = 4
    /\ fnLine = 5
    /\ fnResult = TRUE

-----------------------------------------------------------------------------
(* What the claims compare the render calls with *)

\* A diagnostic with line and column taken from the start of its range.
WithLineAndColumn(d) ==
    [range |-> d.range, severity |-> d.severity, message |-> d.message,
     source |-> d.source, lnum |-> d.range.start.line,
     col |-> d.range.start.character]

\* The diagnostics of ds, in order, whose zero-based range s..e holds the
\* one-based line l, each with its line and column.
OnLine(ds, l) ==
    LET n == [i \in 1..Len(ds) |-> WithLineAndColumn(ds[i])]
    IN SelectSeq(n, LAMBDA d : (l - 1) \in d.range.start.line..d.range.end.line)

\* The items of the first n source groups, in order.
RECURSIVE JoinGroups(_, _)
JoinGroups(groups, n) ==
    IF n = 0 THEN << >> ELSE JoinGroups(groups, n - 1) \o groups[n].items

FullSet(b) == JoinGroups(store[b], Len(store[b]))

RendersOf(i) == {j \in 1..Len(renders) : renders[j].ev = i}

\* Handler i leaves the await at pc by going on to its render call.
Resumes(i, pc) ==
    /\ i \in 1..Len(handlers)
    /\ handlers[i].pc = pc
    /\ handlers'[i].pc = "fulfilled"

LastRender == renders[Len(renders)]

-----------------------------------------------------------------------------
(* C1 *)

\* C1: in CurrentLineOnly mode, the render call of a cursor-move handler for
\* line L carries exactly the diagnostics on line L of the full set the
\* diagnostic manager holds when the handler fetches it (all source groups,
\* flattened), whatever the render calls before it were given.
C1_CursorMoveFiltersFullSet ==
    [][\A i \in 1..Len(handlers) :
          Resumes(i, "awaitDiagnostics") =>
             /\ Len(renders') = Len(renders) + 1
             /\ LastRender'.ev = i
             /\ LastRender'.args[3] =
                    OnLine(FullSet(handlers[i].local), handlers[i].lnum)]_vars

\* Two cursor moves over one full set: the second render call shows a
\* diagnostic the first one had filtered out.
C1_Witness ==
    /\ mode = "CurrentLineOnly"
    /\ Len(renders) = 2
    /\ \A j \in 1..2 : /\ handlers[renders[j].ev].kind = "cursor"
                       /\ Len(renders[j].args[3]) = 1
                       /\ renders[j].args[2] = 1
    /\ renders[1].args[3][1].message = "d2"
    /\ renders[2].args[3][1].message = "d1"
    /\ store[1] = TwoLines

-----------------------------------------------------------------------------
(* C3 *)

\* C3: in CurrentLineOnly mode, the render call of a refresh handler for
\* (bufnr, S) targets bufnr and carries, in S's order, exactly the elements of
\* S on the cursor line of the window the handler asked for.
C3_RefreshFiltersByCursorLine ==
    [][\A i \in 1..Len(handlers) :
          Resumes(i, "awaitCursor") =>
             /\ Len(renders') = Len(renders) + 1
             /\ LastRender'.ev = i
             /\ LastRender'.args[2] = handlers[i].bufnr
             /\ LastRender'.args[3] =
                    OnLine(handlers[i].diagnostics, cursor[handlers[i].local])]_vars

\* A refresh with two diagnostics of which one is on the cursor line.
C3_Witness ==
    /\ mode = "CurrentLineOnly"
    /\ \E j \in 1..Len(renders) :
          /\ handlers[renders[j].ev].kind = "refresh"
          /\ Len(handlers[renders[j].ev].diagnostics) = 2
          /\ Len(renders[j].args[3]) = 1
          /\ renders[j].args[2] = handlers[renders[j].ev].bufnr

-----------------------------------------------------------------------------
(* C4 *)

\* C4: in AllLines mode every refresh event for buffer B with set S has
\* exactly one render call, for B, with as many elements as S, each the
\* element of S at that place with its line and column, wherever the cursor is.
C4_AllLinesForwardsWholeSet ==
    mode = "AllLines" =>
        \A i \in 1..Len(handlers) :
            /\ handlers[i].kind = "refresh"
            /\ Cardinality(RendersOf(i)) = 1
            /\ \A j \in RendersOf(i) :
                  /\ renders[j].args[2] = handlers[i].bufnr
                  /\ Len(renders[j].args[3]) = Len(handlers[i].diagnostics)
                  /\ \A k \in 1..Len(handlers[i].diagnostics) :
                        renders[j].args[3][k] =
                            WithLineAndColumn(handlers[i].diagnostics[k])

\* Both diagnostics of a set forwarded while the cursor is on neither.
C4_Witness ==
    /\ mode = "AllLines"
    /\ cursor[focus] = 2
    /\ \E j \in 1..Len(renders) :
          /\ renders[j].args[2] = focus
          /\ Len(renders[j].args[3]) = 2
          /\ renders[j].args[3][1].message = "d1"
          /\ renders[j].args[3][2].message = "d2"

-----------------------------------------------------------------------------
(* C5 *)

\* C5: in either mode a handler that has run to its end has issued exactly
\* one render call, an empty sequence included; a handler that has not (it is
\* suspended, or an await failed) has issued none.
C5_OneRenderPerHandler ==
    \A i \in 1..Len(handlers) :
        Cardinality(RendersOf(i)) = IF handlers[i].pc = "fulfilled" THEN 1 ELSE 0

\* A cursor move to a line without diagnostics: an empty render call follows
\* a non-empty one for the same buffer.
C5_Witness ==
    /\ Len(renders) = 2
    /\ handlers[renders[2].ev].kind = "cursor"
    /\ handlers[renders[2].ev].pc = "fulfilled"
    /\ renders[1].args[3] /= << >>
    /\ renders[2].args[3] = << >>
    /\ renders[1].args[2] = renders[2].args[2]

-----------------------------------------------------------------------------
(* C6 *)

\* C6: render calls for one buffer are issued in the order in which their
\* events were delivered.
C6_RendersInDeliveryOrder ==
    \A j, k \in 1..Len(renders) :
        (j < k /\ renders[j].args[2] = renders[k].args[2]) =>
            renders[j].ev < renders[k].ev

-----------------------------------------------------------------------------
(* C7 *)

\* C7: no two handlers for the same buffer are in progress at once.
C7_HandlersAtomic ==
    \A i, j \in 1..Len(handlers) :
        (i /= j /\ handlers[i].bufnr = handlers[j].bufnr) =>
            ~(handlers[i].pc \in Suspended /\ handlers[j].pc \in Suspended)

-----------------------------------------------------------------------------
(* C8 *)

\* C8: in both modes every render call carries the namespace allocated at
\* activation, and the teardown leaves no buffer with an annotation of that
\* namespace, however many render calls came before it and for whichever
\* buffers.
C8_TeardownClearsNamespace ==
    /\ [](\A j \in 1..Len(renders) :
              renders[j].args[1] = NS /\ NS \in NamespaceIds)
    /\ [][(phase = "active" /\ phase' = "disposed") =>
             \A b \in Buffers : NS \notin marks'[b]]_vars

\* Deactivation after render calls that annotated both buffers.
C8_Witness ==
    /\ phase = "disposed"
    /\ \A b \in Buffers :
          /\ NS \notin marks[b]
          /\ \E j \in 1..Len(renders) :
                /\ renders[j].args[2] = b
                /\ renders[j].args[3] /= << >>
                /\ renders[j].ok

-----------------------------------------------------------------------------
(* C9 *)

\* C9: the mode is chosen once, at activation, from currentLineOnly, and stays;
\* CurrentLineOnly is subscribed to refresh and cursor-move events, AllLines
\* to refresh events only, so that in AllLines mode no cursor move starts a
\* handler or causes a render call, whatever the configuration becomes later.
C9_ModeFixedAtActivation ==
    /\ [][(phase = "unloaded" /\ phase' = "activating") =>
             mode' = IF config = "on" THEN "CurrentLineOnly" ELSE "AllLines"]_vars
    /\ [][mode /= "none" => mode' = mode]_vars
    /\ [](phase = "active" =>
             /\ mode \in {"CurrentLineOnly", "AllLines"}
             /\ ("diagnosticRefreshEvent" \in subscriptions)
             /\ ("cursorMovedEvent" \in subscriptions) = (mode = "CurrentLineOnly"))
    /\ [](mode = "AllLines" =>
             \A i \in 1..Len(handlers) : handlers[i].kind = "refresh")
    /\ [][(mode = "AllLines" /\ (cursor' /= cursor \/ focus' /= focus)) =>
             renders' = renders]_vars

\* AllLines mode, currentLineOnly switched on afterwards, the cursor moved,
\* and a refresh still forwarded whole.
C9_Witness ==
    /\ mode = "AllLines"
    /\ phase = "active"
    /\ config = "on"
    /\ cursor[focus] = 2
    /\ Len(renders) = 1
    /\ Len(renders[1].args[3]) = 2

-----------------------------------------------------------------------------
(* C10 *)

\* C10: a render call that fails makes the handler that issued it fail.
C10_RenderFailurePropagates ==
    \A j \in 1..Len(renders) :
        ~renders[j].ok => handlers[renders[j].ev].pc = "rejected"

-----------------------------------------------------------------------------
(* C11 *)

\* C11: every render call, from whichever handler and mode, goes to
\* lsp_lines.render.show with exactly five arguments in this order: the
\* namespace, the bufnr of the event that caused it, a sequence of
\* diagnostics, an empty options value and the tag 'coc'.
C11_RenderCallArguments ==
    \A j \in 1..Len(renders) :
        /\ renders[j].fn = "lsp_lines.render.show"
        /\ Len(renders[j].args) = 5
        /\ renders[j].args[1] = NS
        /\ renders[j].ev \in 1..Len(handlers)
        /\ renders[j].args[2] = handlers[renders[j].ev].bufnr
        /\ DOMAIN renders[j].args[3] = 1..Len(renders[j].args[3])
        /\ renders[j].args[4] = << >>
        /\ renders[j].args[5] = "coc"

\* A render call of the refresh handler and one of the cursor handler, for
\* different buffers.
C11_Witness ==
    /\ Len(renders) = 2
    /\ handlers[renders[1].ev].kind = "refresh"
    /\ handlers[renders[2].ev].kind = "cursor"
    /\ renders[1].args[2] /= renders[2].args[2]
    /\ renders[1].args[3] /= << >>

-----------------------------------------------------------------------------
(* C12 *)

\* C12: populateLnumAndCol gives a diagnostic whose lnum is the start line of
\* its range and whose col is the start character, with range, severity,
\* message and source as they were and no other field; applied to its own
\* result it gives that result back.
C12_PopulateFromRangeStart ==
    fnOp \in {"populateLnumAndCol", "populateLnumAndColTwice"} =>
        /\ DOMAIN fnResult =
              {"range", "severity", "message", "source", "lnum", "col"}
        /\ fnResult.lnum = fnDiag.range.start.line
        /\ fnResult.col = fnDiag.range.start.character
        /\ \A f \in {"range", "severity", "message", "source"} :
              fnResult[f] = fnDiag[f]
        /\ fnOp = "populateLnumAndColTwice" => fnResult = fnDiag

\* A diagnostic starting at line 4, character 1, normalised twice.
C12_Witness ==
    /\ fnOp = "populateLnumAndColTwice"
    /\ fnResult.lnum = 4
    /\ fnResult.col = 1
    /\ fnResult.range.end.line = 5

-----------------------------------------------------------------------------
(* C13 *)

\* C13: every diagnostic of every render call issued has lnum and col, and
\* they are the start line and start character of its range.
C13_RenderedDiagnosticsNormalised ==
    \A j \in 1..Len(renders) :
        \A k \in 1..Len(renders[j].args[3]) :
            LET d == renders[j].args[3][k]
            IN /\ {"lnum", "col"} \subseteq DOMAIN d
               /\ d.lnum = d.range.start.line
               /\ d.col = d.range.start.character

\* The cursor handler forwards a diagnostic spanning lines 0..1 with the
\* cursor on line 2: its lnum is the start of the range, not the cursor's line.
C13_Witness ==
    \E j \in 1..Len(renders) :
        /\ handlers[renders[j].ev].kind = "cursor"
        /\ handlers[renders[j].ev].lnum = 2
        /\ Len(renders[j].args[3]) = 2
        /\ renders[j].args[3][1].message = "span"
        /\ renders[j].args[3][1].lnum = 0
        /\ renders[j].args[3][1].col = 1

-----------------------------------------------------------------------------
(* C14 *)

\* C14: activation with an unreadable configuration fails, and then there is
\* no mode, no namespace, no subscription or teardown disposable, no handler
\* and no render call, for good; a configuration read with currentLineOnly
\* absent or false selects AllLines mode.
C14_ConfigFailureIsFatal ==
    /\ [][(phase = "unloaded" /\ phase' /= "unloaded" /\ config = "missing") =>
             phase' = "failed" /\ mode' = "none"]_vars
    /\ []((phase = "failed" /\ mode = "none") =>
             /\ NS = 0
             /\ subscriptions = {}
             /\ handlers = << >>
             /\ renders = << >>)
    /\ [][phase = "failed" => phase' = "failed"]_vars
    /\ [][(phase = "unloaded" /\ phase' /= "unloaded"
             /\ config \in {"unset", "off"}) =>
             phase' = "activating" /\ mode' = "AllLines"]_vars

\* activate has failed on the configuration read.
C14_Witness ==
    /\ phase = "failed"
    /\ mode = "none"
    /\ config = "missing"
    /\ NS = 0
    /\ subscriptions = {}

-----------------------------------------------------------------------------
(* C15 *)

\* C15: once the teardown has run no render call is issued any more, and no
\* buffer has an annotation of the adapter's namespace.
C15_NoRenderAfterTeardown ==
    /\ [][phase = "disposed" => renders' = renders]_vars
    /\ [](phase = "disposed" => \A b \in Buffers : NS \notin marks[b])

-----------------------------------------------------------------------------
(* C16 *)

\* C16: the buffer whose diagnostics the cursor handler fetches is the buffer
\* of the CursorMoved event, for which it issues the render call.
C16_FetchedBufferIsEventBuffer ==
    [][\A i \in 1..Len(handlers) :
          Resumes(i, "awaitDiagnostics") =>
             /\ handlers[i].local = handlers[i].bufnr
             /\ LastRender'.args[3] =
                    OnLine(FullSet(LastRender'.args[2]), handlers[i].lnum)]_vars

-----------------------------------------------------------------------------
(* C17 *)

\* Every delivered event's handler has run to its end and every render call
\* was carried out.
AllHandlersFinished ==
    /\ \A i \in 1..Len(handlers) : handlers[i].pc = "fulfilled"
    /\ \A j \in 1..Len(renders) : renders[j].ok

RendersFor(b) == {j \in 1..Len(renders) : renders[j].args[2] = b}

Max(S) == CHOOSE x \in S : \A y \in S : y <= x

\* C17: in CurrentLineOnly mode, once all handlers have finished, the last
\* render call for the focused buffer carries exactly the diagnostics of the
\* manager's current set for that buffer on the cursor's current line.
C17_DisplayConverges ==
    (mode = "CurrentLineOnly" /\ phase = "active" /\ AllHandlersFinished
        /\ RendersFor(focus) /= {}) =>
        renders[Max(RendersFor(focus))].args[3] =
            OnLine(FullSet(focus), cursor[focus])

=============================================================================
